---- MODULE Spec2Model ----
(***************************************************************************)
(* Model of the calendar-event workflow of src/manual.py and src/crew.py:  *)
(* find_slot, the credential handling of get_calendar_service (inlined in  *)
(* crew.py's create_calendar_event) and create_calendar_event itself.      *)
(*                                                                         *)
(* Three specifications share the variables:                               *)
(*   Spec      sequential calls of create_calendar_event, one action per   *)
(*             whole call, the clock ticking between calls;                *)
(*   SpecSlot  find_slot applied to bounded clock readings and durations;  *)
(*   SpecRace  two runs of create_calendar_event interleaved statement by  *)
(*             statement against one token file.                           *)
(***************************************************************************)
EXTENDS Integers, Sequences, FiniteSets, TLC

\* ---------------------------------------------------------------- bounds
MaxClock == 2          \* clock readings 0..MaxClock (ticks)
TTL == 2               \* lifetime, in ticks, of a freshly issued token
NumTokens == 2         \* distinct access tokens the provider may issue
MaxCalls == 2          \* calls of create_calendar_event in Spec
MaxDuration == 3       \* duration_minutes drawn from 0..MaxDuration
MaxSlotClock == 40     \* clock readings of SpecSlot, in sub-second ticks
TicksPerSecond == 3    \* sub-second resolution of the clock in SpecSlot

\* ------------------------------------------------------ program constants
SecondsPerHour == 3600     \* timedelta(hours=1)
SecondsPerMinute == 60     \* timedelta(minutes=duration_minutes)

NoToken == 0
NoExpiry == -1
None == "None"

VARIABLES
    file,       \* content of the token file at token_path
    clock,      \* the wall clock
    calls,      \* number of completed calls (Spec)
    last,       \* observation of the last completed call (Spec)
    prev,       \* observation of the call before it (Spec)
    slot,       \* last result of find_slot (SpecSlot)
    pc,         \* SpecRace: position of each run
    creds,      \* SpecRace: each run's local variable creds
    loaded,     \* SpecRace: the credential each run loaded from the file
    outcome,    \* SpecRace: each run's returned dict
    hist        \* SpecRace: order of refreshes and writes

vars == <<file, clock, calls, last, prev, slot, pc, creds, loaded, outcome, hist>>

\* ------------------------------------------------------------ credentials
Tokens == 1..NumTokens

NoCreds == [kind |-> "none"]

Creds(t, r, e) == [kind |-> "creds", token |-> t, refresh_token |-> r, expiry |-> e]

AbsentFile == [kind |-> "absent"]
MalformedFile == [kind |-> "malformed"]
TruncatedFile == [kind |-> "truncated"]

\* creds.to_json(): the serialized bundle written to the token file
ToJson(c) ==
    [kind |-> "json", token |-> c.token, refresh_token |-> c.refresh_token,
     expiry |-> c.expiry]

NoExc == [cls |-> "none", text |-> ""]
Exc(c, t) == [cls |-> c, text |-> t]

\* str(e)
Str(e) == e.text

\* os.path.exists(token_path) and Credentials.from_authorized_user_file
LoadCreds(f) ==
    IF f.kind = "absent"
    THEN [raised |-> FALSE, exc |-> NoExc, creds |-> NoCreds]
    ELSE IF f.kind = "json"
    THEN [raised |-> FALSE, exc |-> NoExc,
          creds |-> Creds(f.token, f.refresh_token, f.expiry)]
    ELSE [raised |-> TRUE, exc |-> Exc("ValueError", "bad token file"),
          creds |-> NoCreds]

\* creds.expired
Expired(c, now) == c.expiry # NoExpiry /\ now >= c.expiry

\* creds.valid
Valid(c, now) == c.token # NoToken /\ ~Expired(c, now)

NeedsAuthAlways(c, now) == TRUE

\* not creds or not creds.valid
NeedsAuth(c, now) == IF c.kind = "none" THEN TRUE ELSE ~Valid(c, now)

CanRefreshNever(c, now) == FALSE

\* creds and creds.expired and creds.refresh_token
CanRefresh(c, now) ==
    IF c.kind = "none" THEN FALSE ELSE Expired(c, now) /\ c.refresh_token

\* creds.refresh(Request()) on success: new access token and expiry
Refreshed(c, tok, now) == Creds(tok, c.refresh_token, now + TTL)

\* flow.run_local_server(port=0) on success
Authorized(tok, rt, now) == Creds(tok, rt, now + TTL)

RefreshOutcomes ==
    {[ok |-> TRUE, token |-> t, exc |-> NoExc] : t \in Tokens}
    \cup {[ok |-> FALSE, token |-> NoToken, exc |-> Exc("RefreshError", "invalid_grant")]}

InteractiveOutcomes ==
    {[ok |-> TRUE, token |-> t, refresh_token |-> r, exc |-> NoExc] :
        t \in Tokens, r \in BOOLEAN}
    \cup {[ok |-> FALSE, token |-> NoToken, refresh_token |-> FALSE,
           exc |-> Exc("FileNotFoundError", "no client secrets")],
          [ok |-> FALSE, token |-> NoToken, refresh_token |-> FALSE,
           exc |-> Exc("AccessDeniedError", "access_denied")]}

SaveTokenNever(f, c) == f

\* with open(token_path, 'w') as token_file: token_file.write(creds.to_json())
SaveToken(f, c) == ToJson(c)

Svc(raised, exc, ld, c, f, nr, ni, nw) ==
    [raised |-> raised, exc |-> exc, loaded |-> ld, creds |-> c, file |-> f,
     refreshes |-> nr, interactives |-> ni, writes |-> nw]

\* a variant that opens and writes the token file before the exchange returns
GetCalendarServiceSaveFirst(f, now, ro, io) ==
    LET ld == LoadCreds(f) IN
    IF ld.raised
    THEN Svc(TRUE, ld.exc, NoCreds, NoCreds, f, 0, 0, 0)
    ELSE IF ~NeedsAuth(ld.creds, now)
    THEN Svc(FALSE, NoExc, ld.creds, ld.creds, f, 0, 0, 0)
    ELSE IF CanRefresh(ld.creds, now)
    THEN IF ro.ok
         THEN LET c == Refreshed(ld.creds, ro.token, now) IN
              Svc(FALSE, NoExc, ld.creds, c, SaveToken(f, c), 1, 0, 1)
         ELSE Svc(TRUE, ro.exc, ld.creds, ld.creds, SaveToken(f, ld.creds), 1, 0, 1)
    ELSE IF io.ok
         THEN LET c == Authorized(io.token, io.refresh_token, now) IN
              Svc(FALSE, NoExc, ld.creds, c, SaveToken(f, c), 0, 1, 1)
         ELSE Svc(TRUE, io.exc, ld.creds, NoCreds, TruncatedFile, 0, 1, 1)

\* get_calendar_service: the credential handling up to build(...)
GetCalendarService(f, now, ro, io) ==
    LET ld == LoadCreds(f) IN
    IF ld.raised
    THEN Svc(TRUE, ld.exc, NoCreds, NoCreds, f, 0, 0, 0)
    ELSE IF ~NeedsAuth(ld.creds, now)
    THEN Svc(FALSE, NoExc, ld.creds, ld.creds, f, 0, 0, 0)
    ELSE IF CanRefresh(ld.creds, now)
    THEN IF ro.ok
         THEN LET c == Refreshed(ld.creds, ro.token, now) IN
              Svc(FALSE, NoExc, ld.creds, c, SaveToken(f, c), 1, 0, 1)
         ELSE Svc(TRUE, ro.exc, ld.creds, ld.creds, f, 1, 0, 0)
    ELSE IF io.ok
         THEN LET c == Authorized(io.token, io.refresh_token, now) IN
              Svc(FALSE, NoExc, ld.creds, c, SaveToken(f, c), 0, 1, 1)
         ELSE Svc(TRUE, io.exc, ld.creds, NoCreds, f, 0, 1, 0)

\* the branch of get_calendar_service a call takes: which provider exchange it uses
AuthPath(f, now) ==
    LET ld == LoadCreds(f) IN
    IF ld.raised THEN "raise"
    ELSE IF ~NeedsAuth(ld.creds, now) THEN "valid"
    ELSE IF CanRefresh(ld.creds, now) THEN "refresh"
    ELSE "interactive"

\* the outcomes of the exchanges a call from this state actually performs
RefreshInputs(f, now) ==
    IF AuthPath(f, now) = "refresh" THEN RefreshOutcomes
    ELSE {[ok |-> FALSE, token |-> NoToken, exc |-> NoExc]}

InteractiveInputs(f, now) ==
    IF AuthPath(f, now) = "interactive" THEN InteractiveOutcomes
    ELSE {[ok |-> FALSE, token |-> NoToken, refresh_token |-> FALSE, exc |-> NoExc]}

\* ------------------------------------------------------------ the insert
Keys == {"htmlLink", "hangoutLink", "id"}

\* the value the provider gives each key it returns
ValueOf(k) == IF k = "htmlLink" THEN "L" ELSE IF k = "hangoutLink" THEN "M" ELSE "X"

\* event resources the provider may return: any subset of the keys present
Resources == {[k \in S |-> ValueOf(k)] : S \in SUBSET Keys}

NoResource == [k \in {} |-> None]

InsertOutcomes ==
    {[ok |-> TRUE, resource |-> r, exc |-> NoExc] : r \in Resources}
    \cup {[ok |-> FALSE, resource |-> NoResource, exc |-> Exc("HttpError", "403 quota")],
          [ok |-> FALSE, resource |-> NoResource, exc |-> Exc("TimeoutError", "timed out")]}

NoInsert == [ok |-> FALSE, resource |-> NoResource, exc |-> NoExc]

\* the insert is reached only when get_calendar_service returned
InsertInputs(svc) == IF svc.raised THEN {NoInsert} ELSE InsertOutcomes

\* created_event.get(key)
Get(d, k) == IF k \in DOMAIN d THEN d[k] ELSE None

NoResult == [status |-> "none"]

SuccessSwapped(r) ==
    [status |-> "success", event_link |-> Get(r, "hangoutLink"),
     meet_link |-> Get(r, "htmlLink"), event_id |-> Get(r, "id")]

\* the dict returned after a successful insert
Success(r) ==
    [status |-> "success", event_link |-> Get(r, "htmlLink"),
     meet_link |-> Get(r, "hangoutLink"), event_id |-> Get(r, "id")]

Failure(msg) == [status |-> "error", error_message |-> msg]

ExceptHandlerReraise(e) == [escaped |-> TRUE, result |-> NoResult]

ExceptHandlerNoText(e) == [escaped |-> FALSE, result |-> Failure("error")]

\* except Exception as e: return {'status': 'error', 'error_message': str(e)}
ExceptHandler(e) == [escaped |-> FALSE, result |-> Failure(Str(e))]

ExecuteInsertRetry(ins) == [attempts |-> IF ins.ok THEN 1 ELSE 2, outcome |-> ins]

\* service.events().insert(...).execute(): one request, its outcome the provider's
ExecuteInsert(ins) == [attempts |-> 1, outcome |-> ins]

NoRequestId == [prefix |-> "none", ts |-> -1]

\* f"event_{datetime.now().timestamp()}"
RequestId(now) == [prefix |-> "event_", ts |-> now]

\* --------------------------------------------------- Spec: sequential calls
NoCall ==
    [called |-> FALSE, pre |-> AbsentFile, post |-> AbsentFile, now |-> 0,
     loaded |-> NoCreds, creds |-> NoCreds, refreshes |-> 0, interactives |-> 0,
     writes |-> 0, authRaised |-> FALSE, authExc |-> NoExc, ins |-> NoInsert,
     inserts |-> 0, escaped |-> FALSE, result |-> NoResult,
     requestId |-> NoRequestId]

\* what a later call can still observe of an earlier one
Summary(l) ==
    [called |-> l.called, pre_kind |-> l.pre.kind, post |-> l.post,
     authRaised |-> l.authRaised, interactives |-> l.interactives,
     status |-> l.result.status, requestId |-> l.requestId]

InitFiles ==
    {AbsentFile, MalformedFile}
    \cup {ToJson(Creds(t, r, e)) :
            t \in {NoToken, 1}, r \in BOOLEAN, e \in {NoExpiry} \cup (0..MaxClock)}

\* the body of the try block after the service is built, and the except clause
Handled(svc, ins) ==
    IF svc.raised
    THEN ExceptHandler(svc.exc)
    ELSE IF ExecuteInsert(ins).outcome.ok
    THEN [escaped |-> FALSE, result |-> Success(ExecuteInsert(ins).outcome.resource)]
    ELSE ExceptHandler(ExecuteInsert(ins).outcome.exc)

\* one whole call of create_calendar_event
CreateCalendarEvent(ro, io, ins) ==
    /\ calls < MaxCalls
    /\ LET svc == GetCalendarService(file, clock, ro, io)
           h == Handled(svc, ins)
       IN /\ file' = svc.file
          /\ last' =
                [called |-> TRUE, pre |-> file, post |-> svc.file, now |-> clock,
                 loaded |-> svc.loaded, creds |-> svc.creds,
                 refreshes |-> svc.refreshes, interactives |-> svc.interactives,
                 writes |-> svc.writes, authRaised |-> svc.raised,
                 authExc |-> svc.exc,
                 ins |-> IF svc.raised THEN NoInsert ELSE ins,
                 inserts |-> IF svc.raised THEN 0 ELSE ExecuteInsert(ins).attempts,
                 escaped |-> h.escaped, result |-> h.result,
                 requestId |-> IF svc.raised THEN NoRequestId ELSE RequestId(clock)]
    /\ prev' = Summary(last)
    /\ calls' = calls + 1
    /\ UNCHANGED <<clock, slot, pc, creds, loaded, outcome, hist>>

\* time passes between calls
Tick ==
    /\ clock < MaxClock
    /\ clock' = clock + 1
    /\ UNCHANGED <<file, calls, last, prev, slot, pc, creds, loaded, outcome, hist>>

\* ------------------------------------------------------ SpecSlot: find_slot
NoSlot == [called |-> FALSE, start_time |-> 0, end_time |-> 0, timezone |-> "", duration |-> 0]

Timezones == {"UTC", "Asia/Karachi"}

\* strftime('%Y-%m-%dT%H:%M:%S'): whole seconds, the sub-second part dropped
Strftime(t) == t \div TicksPerSecond

SlotEndBefore(start, d) == start - d * SecondsPerMinute * TicksPerSecond

\* end = start + timedelta(minutes=duration_minutes)
SlotEnd(start, d) == start + d * SecondsPerMinute * TicksPerSecond

\* start = now + timedelta(hours=1)
SlotStart(now) == now + SecondsPerHour * TicksPerSecond

\* find_slot(duration_minutes, timezone)
FindSlot(d, tz) ==
    /\ slot' = [called |-> TRUE, start_time |-> Strftime(SlotStart(clock)),
                end_time |-> Strftime(SlotEnd(SlotStart(clock), d)),
                timezone |-> tz, duration |-> d]
    /\ UNCHANGED <<file, clock, calls, last, prev, pc, creds, loaded, outcome, hist>>

SlotTick ==
    /\ clock < MaxSlotClock
    /\ clock' = clock + 1
    /\ UNCHANGED <<file, calls, last, prev, slot, pc, creds, loaded, outcome, hist>>

\* ------------------------------------------------- SpecRace: concurrent runs
Runs == {1, 2}

NoHist == [refreshed |-> <<>>, written |-> <<>>]

IdleInit ==
    /\ pc = [p \in Runs |-> "call"]
    /\ creds = [p \in Runs |-> NoCreds]
    /\ loaded = [p \in Runs |-> NoCreds]
    /\ outcome = [p \in Runs |-> NoResult]
    /\ hist = NoHist

Init ==
    /\ file \in InitFiles
    /\ clock = 0
    /\ calls = 0
    /\ last = NoCall
    /\ prev = Summary(NoCall)
    /\ slot = NoSlot
    /\ IdleInit

Next ==
    \/ \E ro \in RefreshInputs(file, clock), io \in InteractiveInputs(file, clock) :
          \E ins \in InsertInputs(GetCalendarService(file, clock, ro, io)) :
             CreateCalendarEvent(ro, io, ins)
    \/ Tick

Spec == Init /\ [][Next]_vars

SlotInit ==
    /\ file = AbsentFile
    /\ clock \in 0..MaxSlotClock
    /\ calls = 0
    /\ last = NoCall
    /\ prev = Summary(NoCall)
    /\ slot = NoSlot
    /\ IdleInit

SlotNext ==
    \/ \E d \in 0..MaxDuration, tz \in Timezones : FindSlot(d, tz)
    \/ SlotTick

SpecSlot == SlotInit /\ [][SlotNext]_vars

\* the statements of create_calendar_event, one action each, for run p
seqVars == <<calls, last, prev, slot>>

\* if os.path.exists(token_path): creds = Credentials.from_authorized_user_file(...)
RaceLoad(p) ==
    /\ pc[p] = "call"
    /\ LET ld == LoadCreds(file) IN
       IF ld.raised
       THEN /\ pc' = [pc EXCEPT ![p] = "done"]
            /\ outcome' = [outcome EXCEPT ![p] = ExceptHandler(ld.exc).result]
            /\ UNCHANGED <<creds, loaded>>
       ELSE /\ pc' = [pc EXCEPT ![p] = "check"]
            /\ creds' = [creds EXCEPT ![p] = ld.creds]
            /\ loaded' = [loaded EXCEPT ![p] = ld.creds]
            /\ UNCHANGED outcome
    /\ UNCHANGED <<file, clock, hist>>
    /\ UNCHANGED seqVars

\* if not creds or not creds.valid: is false, nothing to do before build(...)
RaceValid(p) ==
    /\ pc[p] = "check"
    /\ ~NeedsAuth(creds[p], clock)
    /\ pc' = [pc EXCEPT ![p] = "build"]
    /\ UNCHANGED <<file, clock, creds, loaded, outcome, hist>>
    /\ UNCHANGED seqVars

\* creds.refresh(Request())
RaceRefresh(p, ro) ==
    /\ pc[p] = "check"
    /\ NeedsAuth(creds[p], clock)
    /\ CanRefresh(creds[p], clock)
    /\ IF ro.ok
       THEN /\ creds' = [creds EXCEPT ![p] = Refreshed(creds[p], ro.token, clock)]
            /\ pc' = [pc EXCEPT ![p] = "open"]
            /\ hist' = [hist EXCEPT !.refreshed = Append(@, p)]
            /\ UNCHANGED outcome
       ELSE /\ pc' = [pc EXCEPT ![p] = "done"]
            /\ outcome' = [outcome EXCEPT ![p] = ExceptHandler(ro.exc).result]
            /\ UNCHANGED <<creds, hist>>
    /\ UNCHANGED <<file, clock, loaded>>
    /\ UNCHANGED seqVars

\* flow = InstalledAppFlow.from_client_secrets_file(...); creds = flow.run_local_server(port=0)
RaceInteractive(p, io) ==
    /\ pc[p] = "check"
    /\ NeedsAuth(creds[p], clock)
    /\ ~CanRefresh(creds[p], clock)
    /\ IF io.ok
       THEN /\ creds' = [creds EXCEPT ![p] = Authorized(io.token, io.refresh_token, clock)]
            /\ pc' = [pc EXCEPT ![p] = "open"]
            /\ UNCHANGED outcome
       ELSE /\ pc' = [pc EXCEPT ![p] = "done"]
            /\ outcome' = [outcome EXCEPT ![p] = ExceptHandler(io.exc).result]
            /\ UNCHANGED creds
    /\ UNCHANGED <<file, clock, loaded, hist>>
    /\ UNCHANGED seqVars

\* open(token_path, 'w'): the file is truncated before anything is written
RaceOpen(p) ==
    /\ pc[p] = "open"
    /\ file' = TruncatedFile
    /\ pc' = [pc EXCEPT ![p] = "write"]
    /\ UNCHANGED <<clock, creds, loaded, outcome, hist>>
    /\ UNCHANGED seqVars

\* token_file.write(creds.to_json()) and the close at the end of the with block
RaceWrite(p) ==
    /\ pc[p] = "write"
    /\ file' = SaveToken(file, creds[p])
    /\ hist' = [hist EXCEPT !.written = Append(@, p)]
    /\ pc' = [pc EXCEPT ![p] = "build"]
    /\ UNCHANGED <<clock, creds, loaded, outcome>>
    /\ UNCHANGED seqVars

\* build(...), the event body, the insert and the returned dict
RaceInsert(p, ins) ==
    /\ pc[p] = "build"
    /\ outcome' = [outcome EXCEPT ![p] =
            Handled(Svc(FALSE, NoExc, loaded[p], creds[p], file, 0, 0, 0), ins).result]
    /\ pc' = [pc EXCEPT ![p] = "done"]
    /\ UNCHANGED <<file, clock, creds, loaded, hist>>
    /\ UNCHANGED seqVars

RaceTick ==
    /\ clock < MaxClock
    /\ clock' = clock + 1
    /\ UNCHANGED <<file, pc, creds, loaded, outcome, hist>>
    /\ UNCHANGED seqVars

\* the insert outcomes the runs of SpecRace are given
RaceInsertOutcomes ==
    {ins \in InsertOutcomes : ins.ok => DOMAIN ins.resource = Keys}

RaceInit ==
    /\ file \in InitFiles
    /\ clock = 0
    /\ calls = 0
    /\ last = NoCall
    /\ prev = Summary(NoCall)
    /\ slot = NoSlot
    /\ IdleInit

RaceNext ==
    \/ \E p \in Runs : RaceLoad(p)
    \/ \E p \in Runs : RaceValid(p)
    \/ \E p \in Runs, ro \in RefreshOutcomes : RaceRefresh(p, ro)
    \/ \E p \in Runs, io \in InteractiveOutcomes : RaceInteractive(p, io)
    \/ \E p \in Runs : RaceOpen(p)
    \/ \E p \in Runs : RaceWrite(p)
    \/ \E p \in Runs, ins \in RaceInsertOutcomes : RaceInsert(p, ins)
    \/ RaceTick

SpecRace == RaceInit /\ [][RaceNext]_vars

\* ------------------------------------------------------------------ claims

\* the token file holds a well-formed credential that is valid at time now
ValidFile(f, now) ==
    /\ f.kind = "json"
    /\ f.token # NoToken
    /\ (f.expiry = NoExpiry \/ now < f.expiry)

\* the token file holds an expired credential that carries a refresh token
StaleRefreshableFile(f, now) ==
    /\ f.kind = "json"
    /\ f.expiry # NoExpiry
    /\ now >= f.expiry
    /\ f.refresh_token

\* C1 as stated: a failure of the credential load, the refresh or the interactive
\* authorization escapes create_calendar_event and no result is returned.
C1_AuthFailurePropagates ==
    (last.called /\ last.authRaised) =>
        (last.escaped /\ last.result = NoResult)

\* C1 amended: a failure of the credential load, the refresh or the interactive
\* authorization is caught by create_calendar_event's except clause and returned
\* as Failure carrying the exception's text; nothing escapes, the insert is not
\* attempted and the token file is left as it was.
C1_AuthFailureReturnedAsFailure ==
    (last.called /\ last.authRaised) =>
        /\ ~last.escaped
        /\ last.result = [status |-> "error", error_message |-> last.authExc.text]
        /\ last.inserts = 0
        /\ last.requestId = NoRequestId
        /\ last.post = last.pre

C1_Witness ==
    /\ last.called
    /\ last.authRaised
    /\ last.refreshes = 1
    /\ last.result.status = "error"

\* C2: with the credential obtained, an insert that raises yields Failure with the
\* exception's text, nothing escapes, and the insert is attempted exactly once.
C2_InsertFailureReturnedOnce ==
    (last.called /\ ~last.authRaised /\ ~last.ins.ok) =>
        /\ Valid(last.creds, last.now)
        /\ ~last.escaped
        /\ last.result = [status |-> "error", error_message |-> last.ins.exc.text]
        /\ last.inserts = 1

C2_Witness ==
    /\ last.called
    /\ ~last.authRaised
    /\ ~last.ins.ok
    /\ last.ins.exc.text = "403 quota"
    /\ last.result.status = "error"

\* C3: a call that finds a valid credential in the token file performs neither the
\* interactive authorization nor the refresh exchange, and uses the credential as loaded.
C3_ValidCacheNoAuth ==
    (last.called /\ ValidFile(last.pre, last.now)) =>
        /\ last.interactives = 0
        /\ last.refreshes = 0
        /\ ~last.authRaised
        /\ last.creds = last.loaded
        /\ ToJson(last.creds) = last.pre

C3_Witness ==
    /\ last.called
    /\ ValidFile(last.pre, last.now)
    /\ last.interactives = 0
    /\ last.result.status = "success"

\* C4: a call that finds an expired credential with a refresh token, and whose
\* refresh succeeds, overwrites the token file with the refreshed credential
\* (different from the original), performs no interactive authorization, and has
\* written the file by the time the insert is attempted, whatever the insert does.
C4_RefreshPersistsThenInserts ==
    (last.called /\ StaleRefreshableFile(last.pre, last.now) /\ ~last.authRaised) =>
        /\ last.refreshes = 1
        /\ last.interactives = 0
        /\ last.writes = 1
        /\ last.post = ToJson(last.creds)
        /\ last.post # last.pre
        /\ file = last.post
        /\ last.creds.expiry > last.now
        /\ last.creds.refresh_token = last.pre.refresh_token
        /\ last.inserts = 1

C4_Witness ==
    /\ last.called
    /\ StaleRefreshableFile(last.pre, last.now)
    /\ ~last.authRaised
    /\ last.refreshes = 1
    /\ file # last.pre
    /\ last.inserts = 1

\* C5: a call that finds no token file performs the interactive authorization
\* exactly once (and no refresh) and, when it succeeds, writes its credential to the
\* token file; the next call reads that file and, while the credential is valid,
\* performs no interactive authorization.
C5_NoCacheInteractiveOncePersisted ==
    /\ (last.called /\ last.pre.kind = "absent") =>
            /\ last.interactives = 1
            /\ last.refreshes = 0
            /\ ~last.authRaised =>
                    /\ last.writes = 1
                    /\ last.post = ToJson(last.creds)
                    /\ file = last.post
    /\ (prev.called /\ prev.pre_kind = "absent" /\ ~prev.authRaised /\ last.called) =>
            /\ prev.interactives = 1
            /\ prev.post.kind = "json"
            /\ last.pre = prev.post
            /\ ValidFile(last.pre, last.now) => last.interactives = 0

C5_Witness ==
    /\ prev.called
    /\ prev.pre_kind = "absent"
    /\ ~prev.authRaised
    /\ prev.interactives = 1
    /\ last.called
    /\ ValidFile(last.pre, last.now)
    /\ last.interactives = 0

\* C6: when the insert returns an event resource the call returns Success whose
\* event_link, meet_link and event_id are the resource's htmlLink, hangoutLink and
\* id, a key the resource lacks giving None; the result is never Failure.
C6_SuccessFieldsFromResource ==
    (last.called /\ ~last.authRaised /\ last.ins.ok) =>
        LET r == last.ins.resource
            field(k) == IF k \in DOMAIN r THEN r[k] ELSE None
        IN /\ ~last.escaped
           /\ last.result =
                [status |-> "success", event_link |-> field("htmlLink"),
                 meet_link |-> field("hangoutLink"), event_id |-> field("id")]

C6_Witness ==
    /\ last.called
    /\ last.ins.ok
    /\ DOMAIN last.ins.resource = {"htmlLink", "id"}
    /\ last.result.status = "success"
    /\ last.result.event_link = "L"
    /\ last.result.meet_link = None

\* C7 as stated: two consecutive successful calls send distinct requestId values,
\* also when both read the clock within the same tick.
C7_DistinctRequestIds ==
    (prev.called /\ prev.status = "success" /\ last.called
        /\ last.result.status = "success") =>
        last.requestId # prev.requestId

\* C8 as stated: every slot returned by find_slot for a duration >= 0 has end > start.
C8_EndAfterStart ==
    slot.called => slot.end_time > slot.start_time

\* C8 amended: every slot returned by find_slot for a duration >= 0 has
\* end = start + 60 * duration_minutes seconds, so end >= start, and end > start
\* exactly when duration_minutes >= 1.
C8_EndNotBeforeStart ==
    slot.called =>
        /\ slot.end_time - slot.start_time = slot.duration * SecondsPerMinute
        /\ slot.end_time >= slot.start_time
        /\ (slot.duration >= 1) <=> (slot.end_time > slot.start_time)

C8_Witness ==
    /\ slot.called
    /\ slot.duration = 0
    /\ slot.end_time = slot.start_time

\* C9: two runs against one token file are not ordered by any lock: when both have
\* loaded the same stale credential each performs its own refresh and its own
\* write, and the file ends up holding the credential of whichever run wrote last.
RefreshedRuns == {hist.refreshed[i] : i \in 1..Len(hist.refreshed)}

C9_RacingRefreshesLastWriterWins ==
    (/\ \A p \in Runs : pc[p] = "done" /\ p \in RefreshedRuns
     /\ \A p, q \in Runs : loaded[p] = loaded[q]) =>
        /\ Len(hist.refreshed) = Cardinality(Runs)
        /\ Len(hist.written) = Cardinality(Runs)
        /\ \A p \in Runs : loaded[p].refresh_token /\ creds[p] # loaded[p]
        /\ file = ToJson(creds[hist.written[Len(hist.written)]])

\* both runs refreshed the same stale credential, run 1 first, and the file ends up
\* holding run 1's credential because run 2 wrote first
C9_Witness ==
    /\ \A p \in Runs : pc[p] = "done"
    /\ loaded[1] = loaded[2]
    /\ hist.refreshed = <<1, 2>>
    /\ hist.written = <<2, 1>>
    /\ creds[1] # creds[2]
    /\ file = ToJson(creds[1])
    /\ file # ToJson(creds[2])

\* C10: the token file is written only in a call that found no credential or a
\* credential that was not valid, and only after that call's refresh or interactive
\* authorization succeeded; a call that found a valid credential, or whose load,
\* refresh or interactive authorization raised, leaves the file as it was,
\* whatever the insert does.
C10_CacheWrittenOnlyAfterAuth ==
    last.called =>
        /\ file = last.post
        /\ last.writes > 0 =>
                /\ last.pre.kind \in {"absent", "json"}
                /\ ~ValidFile(last.pre, last.now)
                /\ ~last.authRaised
                /\ last.refreshes + last.interactives = 1
                /\ last.post = ToJson(last.creds)
        /\ last.writes = 0 => last.post = last.pre
        /\ (ValidFile(last.pre, last.now) \/ last.authRaised) =>
                (last.writes = 0 /\ last.post = last.pre)

C10_Witness ==
    /\ last.called
    /\ last.authRaised
    /\ last.interactives = 1
    /\ last.pre.kind = "json"
    /\ file = last.pre

====
